---- MODULE Spec2Model ----
(***************************************************************************)
(* Model of app.py (TuneGAN): the Generate page of a Streamlit app.  Every *)
(* browser session runs the script in a thread of its own; the threads     *)
(* share the cached MusicGen handle and the directory audio_output.        *)
(***************************************************************************)
EXTENDS Integers, Sequences, FiniteSets, TLC

\* ------------------------------------------------------------------ bounds
MaxRequests == 2          \* button presses explored in one process lifetime

\* ------------------------------------------------------- program constants
MinDuration     == 1      \* st.number_input("Duration (s)", 1, 30, 10)
MaxDuration     == 30
DefaultDuration == 10
TopK            == 250    \* set_generation_params(top_k=250)
DefaultIdx      == 0      \* save_waveform(..., idx: int = 0, ...)
DefaultSr       == 32000  \* save_waveform(..., sr: int = 32_000)

\* The browser sessions the process serves, one script thread each.
Sessions == {1, 2}

\* ------------------------------------------------------------------ strings
\* A prompt is a sequence of characters.
Whitespace == {" ", "\t", "\n"}

\* What the user may enter as a prompt: nothing, whitespace only, and a
\* description with whitespace around it.
Prompts == { <<>>, << " ", "\n" >>, << " ", "a", " " >> }

\* str.lstrip / str.rstrip / str.strip
RECURSIVE LStrip(_)
LStrip(str) ==
    IF str # <<>> /\ Head(str) \in Whitespace THEN LStrip(Tail(str)) ELSE str

RECURSIVE RStrip(_)
RStrip(str) ==
    IF str # <<>> /\ str[Len(str)] \in Whitespace
    THEN RStrip(SubSeq(str, 1, Len(str) - 1))
    ELSE str

Strip(str) == RStrip(LStrip(str))

IsBlankNoStrip(description) == description = <<>>

\* `not description.strip()`
IsBlank(description) == Strip(description) = <<>>

\* ------------------------------------------------------------------- bytes
\* little-endian encoding of a 32-bit unsigned integer
LE32(n) == << n % 256, (n \div 256) % 256, (n \div 65536) % 256, (n \div 16777216) % 256 >>

Repeat(b, n) == [i \in 1..n |-> b]

\* A waveform is the tensor one generation returned: gen identifies the
\* generation (its samples are sampled afresh each time), dur is the number of
\* seconds the model generated.
NoWave == [gen |-> 0, dur |-> 0]

\* little-endian encoding of a 16-bit unsigned integer
LE16(n) == << n % 256, (n \div 256) % 256 >>

\* The pieces torchaudio.save writes: a header carrying the sample rate and the
\* data length, then the samples.
WavData(wave)       == Repeat(wave.gen, wave.dur)
WavHeader(wave, sr) == LE32(sr) \o LE16(Len(WavData(wave)))
WavBytes(wave, sr)  == WavHeader(wave, sr) \o WavData(wave)

\* write(2) at an offset: a hole is filled with zeros, bytes past the end of
\* what is written stay.
WriteAt(old, off, bytes) ==
    LET end == off + Len(bytes)
        n   == IF Len(old) > end THEN Len(old) ELSE end
    IN  [i \in 1..n |->
            IF i > off /\ i <= end THEN bytes[i - off]
            ELSE IF i <= Len(old) THEN old[i]
            ELSE 0]

\* ------------------------------------------------------------------ base64
Alphabet ==
    << "A","B","C","D","E","F","G","H","I","J","K","L","M","N","O","P",
       "Q","R","S","T","U","V","W","X","Y","Z","a","b","c","d","e","f",
       "g","h","i","j","k","l","m","n","o","p","q","r","s","t","u","v",
       "w","x","y","z","0","1","2","3","4","5","6","7","8","9","+","/" >>

Sextet(n) == Alphabet[n + 1]
Pad == "="

RECURSIVE B64EncodeNoPad(_)
B64EncodeNoPad(data) ==
    IF Len(data) < 3 THEN <<>>
    ELSE << Sextet(data[1] \div 4),
            Sextet((data[1] % 4) * 16 + data[2] \div 16),
            Sextet((data[2] % 16) * 4 + data[3] \div 64),
            Sextet(data[3] % 64) >> \o B64EncodeNoPad(SubSeq(data, 4, Len(data)))

\* base64.b64encode(data).decode()
RECURSIVE B64Encode(_)
B64Encode(data) ==
    IF Len(data) = 0 THEN <<>>
    ELSE IF Len(data) = 1 THEN
        << Sextet(data[1] \div 4), Sextet((data[1] % 4) * 16), Pad, Pad >>
    ELSE IF Len(data) = 2 THEN
        << Sextet(data[1] \div 4),
           Sextet((data[1] % 4) * 16 + data[2] \div 16),
           Sextet((data[2] % 16) * 4), Pad >>
    ELSE << Sextet(data[1] \div 4),
            Sextet((data[1] % 4) * 16 + data[2] \div 16),
            Sextet((data[2] % 16) * 4 + data[3] \div 64),
            Sextet(data[3] % 64) >> \o B64Encode(SubSeq(data, 4, Len(data)))

\* what the browser does with the href of the link: the inverse of base64
SextetValue(c) == (CHOOSE i \in 1..64 : Alphabet[i] = c) - 1

RECURSIVE B64Decode(_)
B64Decode(text) ==
    IF Len(text) < 4 THEN <<>>
    ELSE LET v1 == SextetValue(text[1])
             v2 == SextetValue(text[2])
             rest == B64Decode(SubSeq(text, 5, Len(text)))
         IN  IF text[3] = Pad THEN << v1 * 4 + v2 \div 16 >>
             ELSE IF text[4] = Pad THEN
                 << v1 * 4 + v2 \div 16,
                    (v2 % 16) * 16 + SextetValue(text[3]) \div 4 >>
             ELSE << v1 * 4 + v2 \div 16,
                     (v2 % 16) * 16 + SextetValue(text[3]) \div 4,
                     (SextetValue(text[3]) % 4) * 64 + SextetValue(text[4]) >> \o rest

\* ----------------------------------------------------------------- widgets
\* What the user may type into the duration box.
TypedDurations == {MinDuration - 1, MinDuration, MaxDuration + 1}

NumberInputUnchecked(typed, min_value, max_value, current) == typed

\* st.number_input(label, min_value, max_value, value): a typed value outside
\* [min_value, max_value] is refused and the widget keeps its value.
NumberInput(typed, min_value, max_value, current) ==
    IF typed >= min_value /\ typed <= max_value THEN typed ELSE current

\* ------------------------------------------------------------------- state
VARIABLES
    pc,           \* where each session's script run stands
    description,  \* the text area's value in each session
    duration,     \* the number input's value in each session
    typed,        \* what the user last typed into the number input
    reqNo,        \* number of Generate presses of each session
    cache,        \* st.cache_resource entry of load_model: 0 or a handle
    lock,         \* holder of the cache's compute lock, 0 when free
    loads,        \* calls of MusicGen.get_pretrained: started and succeeded
    model,        \* the handle each request got from load_model
    params,       \* generation parameters stored in the cached handle
    wave,         \* the waveform each request got from generate_music
    gens,         \* number of waveforms the model has produced
    dir,          \* audio_output: file name -> bytes
    file_path,    \* the path save_waveform returned to each request
    out,          \* what each session's page shows
    fault,        \* the step at which each request raised, "none" otherwise
    calls,        \* per request: calls made of each helper, and their arguments
    hist          \* history of the writes to audio_output

vars == << pc, description, duration, typed, reqNo, cache, lock, loads, model,
           params, wave, gens, dir, file_path, out, fault, calls, hist >>

Steps == {"idle", "load_model", "get_pretrained", "set_params", "generate",
          "save", "save_header", "save_data", "read", "link", "success",
          "done", "stopped", "failed"}

\* A run that is over: the script waits for the next interaction.
AtRest == {"idle", "done", "stopped", "failed"}
Writing == {"save_header", "save_data"}

NoOut == [warning |-> FALSE, info |-> FALSE, audioShown |-> FALSE, audio |-> <<>>,
          linkShown |-> FALSE, link |-> <<>>, download |-> <<>>, success |-> FALSE]

NoCalls == [load_model |-> 0, get_pretrained |-> 0, set_params |-> 0,
            generate |-> 0, batch |-> 0, waves |-> 0,
            save |-> 0, sr |-> 0, idx |-> -1, arg |-> 0]

NoParams == [use_sampling |-> FALSE, top_k |-> 0, duration |-> 0]

RECURSIVE SumOver(_, _)
SumOver(f, S) ==
    IF S = {} THEN 0
    ELSE LET x == CHOOSE y \in S : TRUE IN f[x] + SumOver(f, S \ {x})

Requests == SumOver(reqNo, Sessions)

\* f"audio_{idx}.wav" under AUDIO_DIR
FileName(idx) == << "audio_", idx, ".wav" >>

\* A file left in audio_output by an earlier run of the program.
PriorWave == [gen |-> 255, dur |-> MinDuration]

\* AUDIO_DIR.mkdir(exist_ok=True): the directory is new, or kept from before.
InitDirs == { << >>, [n \in {FileName(DefaultIdx)} |-> WavBytes(PriorWave, DefaultSr)] }

Init ==
    /\ pc = [s \in Sessions |-> "idle"]
    /\ description = [s \in Sessions |-> <<>>]
    /\ duration = [s \in Sessions |-> DefaultDuration]
    /\ typed = [s \in Sessions |-> DefaultDuration]
    /\ reqNo = [s \in Sessions |-> 0]
    /\ cache = 0
    /\ lock = 0
    /\ loads = [started |-> 0, ok |-> 0]
    /\ model = [s \in Sessions |-> 0]
    /\ params = NoParams
    /\ wave = [s \in Sessions |-> NoWave]
    /\ gens = 0
    /\ dir \in InitDirs
    /\ file_path = [s \in Sessions |-> <<>>]
    /\ out = [s \in Sessions |-> [NoOut EXCEPT !.info = TRUE]]
    /\ fault = [s \in Sessions |-> "none"]
    /\ calls = [s \in Sessions |-> NoCalls]
    /\ hist = [op |-> "none", by |-> 0, wave |-> NoWave, writes |-> 0,
               overlap |-> [s \in Sessions |-> FALSE]]

\* ----------------------------------------------------------------- helpers
Others(s) == Sessions \ {s}

Called(s, f) == [calls EXCEPT ![s][f] = @ + 1]

\* dir with the file `name` holding `bytes` (created when it is not there)
WithFile(d, name, bytes) ==
    [n \in DOMAIN d \cup {name} |-> IF n = name THEN bytes ELSE d[n]]

\* model.generate(descriptions): one waveform per description, each of the
\* duration the handle holds when generation runs
ModelGenerate(descriptions, p, g) ==
    [i \in 1..Len(descriptions) |-> [gen |-> g + i, dur |-> p.duration]]

BatchOfChars(text) == [i \in 1..Len(text) |-> << text[i] >>]

\* `[description]`: the single-element list handed to model.generate
Batch(text) == << text >>

SaveIdxPerWave(s) == wave[s].gen

\* save_waveform(waveform): the page passes no idx, the default applies
SaveIdx(s) == DefaultIdx

\* the other runs that have the output file open for writing
WritersBeside(s) == {o \in Others(s) : pc[o] \in Writing}

\* ----------------------------------------------------------------- actions
\* The user fills the widgets and presses Generate: the script runs again.
Rerun(s, d, t) ==
    /\ pc[s] \in AtRest
    /\ Requests < MaxRequests
    /\ description' = [description EXCEPT ![s] = d]
    /\ typed' = [typed EXCEPT ![s] = t]
    /\ duration' = [duration EXCEPT ![s] = NumberInput(t, MinDuration, MaxDuration, @)]
    /\ reqNo' = [reqNo EXCEPT ![s] = @ + 1]
    /\ model' = [model EXCEPT ![s] = 0]
    /\ wave' = [wave EXCEPT ![s] = NoWave]
    /\ file_path' = [file_path EXCEPT ![s] = <<>>]
    /\ fault' = [fault EXCEPT ![s] = "none"]
    /\ calls' = [calls EXCEPT ![s] = NoCalls]
    /\ IF IsBlank(d)
       THEN /\ out' = [out EXCEPT ![s] = [NoOut EXCEPT !.warning = TRUE]]
            /\ pc' = [pc EXCEPT ![s] = "stopped"]
       ELSE /\ out' = [out EXCEPT ![s] = NoOut]
            /\ pc' = [pc EXCEPT ![s] = "load_model"]
    /\ UNCHANGED << cache, lock, loads, params, gens, dir, hist >>

\* Single-threaded execution: a run starts when no other run is under way.
RerunSeq(s, d, t) ==
    /\ \A o \in Others(s) : pc[o] \in AtRest
    /\ Rerun(s, d, t)

LoadModelUncached(s) ==
    /\ pc[s] = "load_model"
    /\ calls' = Called(s, "load_model")
    /\ pc' = [pc EXCEPT ![s] = "get_pretrained"]
    /\ UNCHANGED << description, duration, typed, reqNo, cache, lock, loads, model,
                    params, wave, gens, dir, file_path, out, fault, hist >>

\* load_model() under @st.cache_resource: a hit returns the cached handle; a
\* miss computes under the cache's lock, which is taken before the entry is
\* looked up again.
LoadModel(s) ==
    /\ pc[s] = "load_model"
    /\ IF cache # 0
       THEN /\ model' = [model EXCEPT ![s] = cache]
            /\ pc' = [pc EXCEPT ![s] = "set_params"]
            /\ lock' = lock
       ELSE /\ lock = 0
            /\ lock' = s
            /\ model' = model
            /\ pc' = [pc EXCEPT ![s] = "get_pretrained"]
    /\ calls' = Called(s, "load_model")
    /\ UNCHANGED << description, duration, typed, reqNo, cache, loads,
                    params, wave, gens, dir, file_path, out, fault, hist >>

\* MusicGen.get_pretrained returns: the handle is stored in the cache.
GetPretrainedOk(s) ==
    /\ pc[s] = "get_pretrained"
    /\ loads' = [started |-> loads.started + 1, ok |-> loads.ok + 1]
    /\ cache' = loads.ok + 1
    /\ model' = [model EXCEPT ![s] = loads.ok + 1]
    /\ params' = NoParams
    /\ lock' = 0
    /\ calls' = Called(s, "get_pretrained")
    /\ pc' = [pc EXCEPT ![s] = "set_params"]
    /\ UNCHANGED << description, duration, typed, reqNo, wave, gens, dir,
                    file_path, out, fault, hist >>

\* MusicGen.get_pretrained raises: nothing is cached, the run ends.
GetPretrainedFail(s) ==
    /\ pc[s] = "get_pretrained"
    /\ loads' = [loads EXCEPT !.started = @ + 1]
    /\ lock' = 0
    /\ calls' = Called(s, "get_pretrained")
    /\ fault' = [fault EXCEPT ![s] = "load"]
    /\ pc' = [pc EXCEPT ![s] = "failed"]
    /\ UNCHANGED << description, duration, typed, reqNo, cache, model, params,
                    wave, gens, dir, file_path, out, hist >>

\* model.set_generation_params(use_sampling=True, top_k=250, duration=duration)
SetGenerationParams(s) ==
    /\ pc[s] = "set_params"
    /\ params' = [use_sampling |-> TRUE, top_k |-> TopK, duration |-> duration[s]]
    /\ calls' = [calls EXCEPT ![s].set_params = @ + 1, ![s].arg = duration[s]]
    /\ pc' = [pc EXCEPT ![s] = "generate"]
    /\ UNCHANGED << description, duration, typed, reqNo, cache, lock, loads, model,
                    wave, gens, dir, file_path, out, fault, hist >>

\* model.generate([description], progress=True)[0] returns
GenerateOk(s) ==
    /\ pc[s] = "generate"
    /\ LET descriptions == Batch(description[s])
           result == ModelGenerate(descriptions, params, gens)
       IN  /\ wave' = [wave EXCEPT ![s] = result[1]]
           /\ gens' = gens + Len(result)
           /\ calls' = [calls EXCEPT ![s].generate = @ + 1,
                                     ![s].batch = Len(descriptions),
                                     ![s].waves = Len(result)]
    /\ pc' = [pc EXCEPT ![s] = "save"]
    /\ UNCHANGED << description, duration, typed, reqNo, cache, lock, loads, model,
                    params, dir, file_path, out, fault, hist >>

GenerateFailRetry(s) ==
    /\ pc[s] = "generate"
    /\ calls' = [calls EXCEPT ![s].generate = @ + 1, ![s].batch = 1]
    /\ IF calls[s].generate = 0
       THEN UNCHANGED << fault, pc >>
       ELSE /\ fault' = [fault EXCEPT ![s] = "generate"]
            /\ pc' = [pc EXCEPT ![s] = "failed"]
    /\ UNCHANGED << description, duration, typed, reqNo, cache, lock, loads, model,
                    params, wave, gens, dir, file_path, out, hist >>

\* model.generate raises
GenerateFail(s) ==
    /\ pc[s] = "generate"
    /\ calls' = [calls EXCEPT ![s].generate = @ + 1, ![s].batch = 1]
    /\ fault' = [fault EXCEPT ![s] = "generate"]
    /\ pc' = [pc EXCEPT ![s] = "failed"]
    /\ UNCHANGED << description, duration, typed, reqNo, cache, lock, loads, model,
                    params, wave, gens, dir, file_path, out, hist >>

SaveOpenAppend(s) ==
    /\ pc[s] = "save"
    /\ LET idx == SaveIdx(s)
           name == FileName(idx)
       IN  /\ dir' = WithFile(dir, name, IF name \in DOMAIN dir THEN dir[name] ELSE <<>>)
           /\ calls' = [calls EXCEPT ![s].save = @ + 1, ![s].sr = DefaultSr, ![s].idx = idx]
    /\ hist' = [hist EXCEPT !.op = "open", !.by = s,
                   !.overlap = [o \in Sessions |->
                       IF o = s THEN WritersBeside(s) # {}
                       ELSE IF o \in WritersBeside(s) THEN TRUE ELSE @[o]]]
    /\ pc' = [pc EXCEPT ![s] = "save_header"]
    /\ UNCHANGED << description, duration, typed, reqNo, cache, lock, loads, model,
                    params, wave, gens, file_path, out, fault >>

\* save_waveform, torchaudio.save opens the file: it is created or truncated.
SaveOpen(s) ==
    /\ pc[s] = "save"
    /\ LET idx == SaveIdx(s)
           name == FileName(idx)
       IN  /\ dir' = WithFile(dir, name, <<>>)
           /\ calls' = [calls EXCEPT ![s].save = @ + 1, ![s].sr = DefaultSr, ![s].idx = idx]
    /\ hist' = [hist EXCEPT !.op = "open", !.by = s,
                   !.overlap = [o \in Sessions |->
                       IF o = s THEN WritersBeside(s) # {}
                       ELSE IF o \in WritersBeside(s) THEN TRUE ELSE @[o]]]
    /\ pc' = [pc EXCEPT ![s] = "save_header"]
    /\ UNCHANGED << description, duration, typed, reqNo, cache, lock, loads, model,
                    params, wave, gens, file_path, out, fault >>

\* torchaudio.save writes the header at the start of the file.
SaveHeader(s) ==
    /\ pc[s] = "save_header"
    /\ LET name == FileName(calls[s].idx)
       IN  dir' = WithFile(dir, name, WriteAt(dir[name], 0, WavHeader(wave[s], calls[s].sr)))
    /\ hist' = [hist EXCEPT !.op = "header", !.by = s]
    /\ pc' = [pc EXCEPT ![s] = "save_data"]
    /\ UNCHANGED << description, duration, typed, reqNo, cache, lock, loads, model,
                    params, wave, gens, file_path, out, fault, calls >>

\* torchaudio.save writes the samples after the header and closes the file;
\* save_waveform returns the path.
SaveData(s) ==
    /\ pc[s] = "save_data"
    /\ LET name == FileName(calls[s].idx)
           off == Len(WavHeader(wave[s], calls[s].sr))
       IN  /\ dir' = WithFile(dir, name, WriteAt(dir[name], off, WavData(wave[s])))
           /\ file_path' = [file_path EXCEPT ![s] = name]
    /\ hist' = [hist EXCEPT !.op = "finish", !.by = s, !.wave = wave[s],
                            !.writes = @ + 1]
    /\ pc' = [pc EXCEPT ![s] = "read"]
    /\ UNCHANGED << description, duration, typed, reqNo, cache, lock, loads, model,
                    params, wave, gens, out, fault, calls >>

SaveFailCleanup(s) ==
    /\ pc[s] \in {"save"} \cup Writing
    /\ calls' = IF pc[s] = "save"
                THEN [calls EXCEPT ![s].save = @ + 1, ![s].sr = DefaultSr,
                                   ![s].idx = SaveIdx(s)]
                ELSE calls
    /\ hist' = IF pc[s] \in Writing
               THEN [hist EXCEPT !.op = "aborted", !.by = s]
               ELSE hist
    /\ dir' = [n \in DOMAIN dir \ {FileName(SaveIdx(s))} |-> dir[n]]
    /\ fault' = [fault EXCEPT ![s] = "save"]
    /\ pc' = [pc EXCEPT ![s] = "failed"]
    /\ UNCHANGED << description, duration, typed, reqNo, cache, lock, loads, model,
                    params, wave, gens, file_path, out >>

\* torchaudio.save raises (unwritable directory, full disk): the file stays as
\* the write left it.
SaveFail(s) ==
    /\ pc[s] \in {"save"} \cup Writing
    /\ calls' = IF pc[s] = "save"
                THEN [calls EXCEPT ![s].save = @ + 1, ![s].sr = DefaultSr,
                                   ![s].idx = SaveIdx(s)]
                ELSE calls
    /\ hist' = IF pc[s] \in Writing
               THEN [hist EXCEPT !.op = "aborted", !.by = s]
               ELSE hist
    /\ fault' = [fault EXCEPT ![s] = "save"]
    /\ pc' = [pc EXCEPT ![s] = "failed"]
    /\ UNCHANGED << description, duration, typed, reqNo, cache, lock, loads, model,
                    params, wave, gens, dir, file_path, out >>

\* st.audio(file_path.read_bytes(), format="audio/wav")
ReadBytes(s) ==
    /\ pc[s] = "read"
    /\ out' = [out EXCEPT ![s].audio = dir[file_path[s]], ![s].audioShown = TRUE]
    /\ pc' = [pc EXCEPT ![s] = "link"]
    /\ UNCHANGED << description, duration, typed, reqNo, cache, lock, loads, model,
                    params, wave, gens, dir, file_path, fault, calls, hist >>

\* st.markdown(download_link(file_path, "Save .wav"), unsafe_allow_html=True)
DownloadLink(s) ==
    /\ pc[s] = "link"
    /\ LET data == dir[file_path[s]]
           b64  == B64Encode(data)
       IN  out' = [out EXCEPT ![s].link = b64, ![s].download = file_path[s],
                              ![s].linkShown = TRUE]
    /\ pc' = [pc EXCEPT ![s] = "success"]
    /\ UNCHANGED << description, duration, typed, reqNo, cache, lock, loads, model,
                    params, wave, gens, dir, file_path, fault, calls, hist >>

\* st.success("Done! Enjoy your music.")
Success(s) ==
    /\ pc[s] = "success"
    /\ out' = [out EXCEPT ![s].success = TRUE]
    /\ pc' = [pc EXCEPT ![s] = "done"]
    /\ UNCHANGED << description, duration, typed, reqNo, cache, lock, loads, model,
                    params, wave, gens, dir, file_path, fault, calls, hist >>

\* ---------------------------------------------------------- specifications
Step(s) ==
    \/ LoadModel(s)
    \/ GetPretrainedOk(s)
    \/ GetPretrainedFail(s)
    \/ SetGenerationParams(s)
    \/ GenerateOk(s)
    \/ GenerateFail(s)
    \/ SaveOpen(s)
    \/ SaveHeader(s)
    \/ SaveData(s)
    \/ SaveFail(s)
    \/ ReadBytes(s)
    \/ DownloadLink(s)
    \/ Success(s)

\* Sessions run their scripts concurrently.
Next ==
    \E s \in Sessions :
        \/ \E d \in Prompts, t \in TypedDurations : Rerun(s, d, t)
        \/ Step(s)

Spec == Init /\ [][Next]_vars

\* One run at a time, as on a single control thread.
NextSeq ==
    \E s \in Sessions :
        \/ \E d \in Prompts, t \in TypedDurations : RerunSeq(s, d, t)
        \/ Step(s)

SpecSeq == Init /\ [][NextSeq]_vars

\* ------------------------------------------------------------------ claims
\* What the claims name, written out independently of the model's constants.
ClaimedPath == << "audio_", 0, ".wav" >>
ClaimedSr   == 32000
ClaimedMin  == 1
ClaimedMax  == 30

OnlyWhitespace(text) == \A i \in 1..Len(text) : text[i] \in {" ", "\t", "\n"}

NothingDelivered(o) == ~o.audioShown /\ ~o.linkShown /\ ~o.success

\* C1: a press of Generate with an empty or whitespace-only prompt shows the
\* warning and halts: no call of load_model, generate_music or save_waveform
\* is made for it, the output directory and the model are left as they were,
\* and no audio, link or success message is delivered.
C1_BlankPromptHalts ==
    [][\A s \in Sessions :
        /\ (reqNo'[s] # reqNo[s] /\ OnlyWhitespace(description'[s]))
              => /\ pc'[s] = "stopped"
                 /\ out'[s].warning
                 /\ dir' = dir /\ loads' = loads /\ gens' = gens /\ params' = params
        /\ (reqNo'[s] > 0 /\ OnlyWhitespace(description'[s]))
              => /\ pc'[s] = "stopped"
                 /\ calls'[s] = NoCalls
                 /\ NothingDelivered(out'[s])]_vars

C1_Witness ==
    \E s \in Sessions :
        /\ pc[s] = "stopped"
        /\ description[s] # <<>>
        /\ out[s].warning
        /\ ClaimedPath \in DOMAIN dir

\* C2 (as stated): MusicGen.get_pretrained is called at most once in a process
\* lifetime.
C2_LoadCalledAtMostOnce == loads.started <= 1

\* C2 (amended): at most one call of MusicGen.get_pretrained succeeds; once the
\* handle is cached no call of get_pretrained is made and the cache keeps the
\* same handle, which is the one every request gets from load_model.
C2_OneSuccessfulLoad ==
    [][/\ loads'.ok <= 1
       /\ cache # 0 => (loads' = loads /\ cache' = cache)
       /\ \A s \in Sessions : model'[s] # 0 => (cache' # 0 /\ model'[s] = cache')]_vars

C2_Witness ==
    \E s \in Sessions :
        /\ cache # 0
        /\ model[s] = cache
        /\ calls[s].load_model = 1
        /\ calls[s].get_pretrained = 0
        /\ loads.ok = 1

\* C3: each request's generation runs with the duration this same request
\* passed to generate_music, under every interleaving of two requests.
C3_OwnParameters ==
    \A s \in Sessions : wave[s] # NoWave => wave[s].dur = calls[s].arg

\* C4: run one after the other, generations write the same path
\* audio_output/audio_0.wav, and after a completed write the file holds exactly
\* the bytes of the most recent waveform.
C4_LatestWaveformOnly ==
    /\ \A s \in Sessions : file_path[s] \in { <<>>, ClaimedPath }
    /\ hist.op = "finish" =>
          /\ ClaimedPath \in DOMAIN dir
          /\ dir[ClaimedPath] = WavBytes(hist.wave, ClaimedSr)

C4_Witness ==
    /\ hist.op = "finish"
    /\ hist.writes = 2
    /\ \E s \in Sessions : wave[s] # NoWave /\ wave[s] # hist.wave

\* C5 (as stated): once both requests' writes are over, the file holds the
\* waveform of the request whose write finished last.
C5_LastWriterWins ==
    ( /\ hist.op = "finish"
      /\ \A s \in Sessions : pc[s] \notin Writing /\ fault[s] # "save" )
    => ( /\ ClaimedPath \in DOMAIN dir
         /\ dir[ClaimedPath] = WavBytes(hist.wave, ClaimedSr) )

\* C5 (amended): when the write that finished last did not overlap in time with
\* another request's write, the file holds the waveform of that last writer.
C5_LastWriterWinsUnlessOverlap ==
    ( hist.op = "finish" /\ ~hist.overlap[hist.by] )
    => ( /\ ClaimedPath \in DOMAIN dir
         /\ dir[ClaimedPath] = WavBytes(hist.wave, ClaimedSr) )

\* the other request wrote last, and this request delivers the other's bytes
C5_Witness ==
    \E s \in Sessions : \E o \in Sessions \ {s} :
        /\ hist.op = "finish" /\ hist.by = o /\ ~hist.overlap[o]
        /\ wave[s] # NoWave /\ wave[o] # NoWave
        /\ out[s].audioShown
        /\ out[s].audio = WavBytes(wave[o], ClaimedSr)
        /\ out[s].audio # WavBytes(wave[s], ClaimedSr)

\* C6: in single-threaded execution the bytes given to the audio player, and
\* the bytes the download link's base64 text decodes to, are the file
\* save_waveform wrote for this request's waveform.
C6_ReadBackOwnFile ==
    \A s \in Sessions :
        /\ out[s].audioShown => out[s].audio = WavBytes(wave[s], ClaimedSr)
        /\ out[s].linkShown =>
              /\ B64Decode(out[s].link) = WavBytes(wave[s], ClaimedSr)
              /\ out[s].download = ClaimedPath

C6_Witness ==
    \E s \in Sessions :
        /\ pc[s] = "done"
        /\ out[s].audioShown /\ out[s].linkShown
        /\ Len(out[s].link) > 0
        /\ out[s].link[Len(out[s].link)] = "="
        /\ hist.writes = 2

\* C7: every duration that reaches generate_music, set_generation_params or
\* generate is an integer in [1, 30]; a typed 0 or 31 is refused by the input.
C7_DurationInBounds ==
    \A s \in Sessions :
        /\ pc[s] \notin AtRest => duration[s] \in ClaimedMin..ClaimedMax
        /\ calls[s].set_params > 0 => calls[s].arg \in ClaimedMin..ClaimedMax
        /\ params # NoParams => params.duration \in ClaimedMin..ClaimedMax
        /\ wave[s] # NoWave => wave[s].dur \in ClaimedMin..ClaimedMax

C7_Witness ==
    \E s \in Sessions :
        /\ typed[s] \in {ClaimedMin - 1, ClaimedMax + 1}
        /\ calls[s].generate = 1
        /\ wave[s] # NoWave

\* C8: a request that completes without failure made one generation call with
\* a batch of one prompt, got one waveform, and made one file write, of
\* audio_0.wav at 32,000 Hz.
C8_OneOfEach ==
    \A s \in Sessions :
        pc[s] = "done" =>
            /\ ~OnlyWhitespace(description[s])
            /\ calls[s].generate = 1
            /\ calls[s].batch = 1
            /\ calls[s].waves = 1
            /\ calls[s].save = 1
            /\ calls[s].sr = ClaimedSr
            /\ file_path[s] = ClaimedPath
            /\ ClaimedPath \in DOMAIN dir

C8_Witness ==
    \E s \in Sessions :
        /\ pc[s] = "done"
        /\ out[s].success
        /\ duration[s] = ClaimedMin

\* C9: a failure of load, generation or write ends the request at that step:
\* no step is tried twice, nothing runs after it until the next press, no
\* audio, link or success message is delivered, and after a load or generation
\* failure the request has made no file write and the directory is as it was.
C9_FailureEndsRequest ==
    [][\A s \in Sessions :
        /\ pc'[s] = "failed" =>
              /\ fault'[s] \in {"load", "generate", "save"}
              /\ NothingDelivered(out'[s])
              /\ calls'[s].get_pretrained <= 1
              /\ calls'[s].generate <= 1
              /\ calls'[s].save <= 1
              /\ fault'[s] \in {"load", "generate"} => calls'[s].save = 0
        /\ (pc[s] # "failed" /\ pc'[s] = "failed" /\ fault'[s] \in {"load", "generate"})
              => dir' = dir
        /\ (pc[s] = "failed" /\ reqNo'[s] = reqNo[s])
              => (pc'[s] = "failed" /\ calls'[s] = calls[s] /\ out'[s] = out[s])]_vars

C9_Witness ==
    \E s \in Sessions :
        /\ pc[s] = "failed"
        /\ fault[s] = "generate"
        /\ ClaimedPath \in DOMAIN dir
        /\ hist.writes = 1

\* C10: the directory never holds a file other than audio_0.wav, every write
\* is of index 0, and once audio_0.wav exists no step removes it.
C10_OneFileNeverDeleted ==
    /\ DOMAIN dir \subseteq {ClaimedPath}
    /\ [][/\ DOMAIN dir' \subseteq {ClaimedPath}
          /\ ClaimedPath \in DOMAIN dir => ClaimedPath \in DOMAIN dir'
          /\ \A s \in Sessions : calls'[s].idx \in {-1, 0}]_vars

C10_Witness ==
    /\ DOMAIN dir = {ClaimedPath}
    /\ hist.writes = 2
    /\ \A s \in Sessions : pc[s] \in AtRest

====
